---------------------------- MODULE Spec2Model ----------------------------
(***************************************************************************)
(* Conversational IVR backend (src/app.py, duplicated in                   *)
(* src/src/routes/routes.py): the two in-memory session stores             *)
(* (conversation_sessions, live_transcripts), the request handlers that    *)
(* read and write them, and the two services the handlers call             *)
(* (IntentService, SpeechService).                                         *)
(*                                                                         *)
(* The Flask development server handles each request in its own thread,    *)
(* so a handler is a sequence of steps, one step per access to a shared    *)
(* dictionary or list; the steps of different threads interleave.          *)
(*                                                                         *)
(* Text is a sequence of segments. The segment " " is one whitespace       *)
(* character; any other segment is a run of characters that neither starts *)
(* nor ends with whitespace. str.strip() removes the leading and trailing  *)
(* " " segments, + is \o, and the empty string is << >>.                   *)
(***************************************************************************)
EXTENDS Naturals, Sequences, FiniteSets

VARIABLES
    client,                 \* IntentService.client is set (Azure OpenAI configured)
    speech_config,          \* SpeechService.speech_config is set
    conversation_sessions,  \* dict: session id -> reference of a list, or NoRef (key absent)
    lists,                  \* the list objects: reference -> sequence of turns
    live_transcripts,       \* dict: session id -> [present, text]
    pc,                     \* per thread: position inside its handler, or "idle"
    request,                \* per thread: the request being (or last) handled
    response,               \* per thread: the last response sent
    conversation_history,   \* per thread, converse: local reference to the session's list
    intent_result,          \* per thread, converse: result of classify_intent
    messages,               \* per thread, converse: message list sent to chat.completions
    bot_response,           \* per thread, converse: result of generate_response
    partial_text,           \* per thread, stream_chunk: transcription of the chunk
    joined,                 \* per thread, stream_chunk: stripped right-hand side of line 83-85
    arrived,                \* history variable: the session's turns when the request
                            \* arrived
    prior,                  \* history variable: the session's turns when the handler
                            \* looked the session up
    provider_log,           \* history variable: what the providers did for this request
    heard,                  \* history variable: per session, whether start was called and
                            \* the texts appended to the buffer since
    budget                  \* requests the clients will still send in this run

vars == <<client, speech_config, conversation_sessions, lists, live_transcripts,
          pc, request, response, conversation_history, intent_result, messages,
          bot_response, partial_text, joined, arrived, prior, provider_log, heard,
          budget>>

services == <<client, speech_config>>
convStore == <<conversation_sessions, lists>>
streamStore == <<live_transcripts, heard>>
\* what a handler is given when its request arrives
received == <<request, response, budget>>
\* the history variables of a thread
logs == <<arrived, prior, provider_log>>
\* the locals of the handlers
convLocals == <<conversation_history, intent_result, messages, bot_response>>
streamLocals == <<partial_text, joined>>

-----------------------------------------------------------------------------
(* Bounds of the model *)

\* requests the clients send in one run of Spec and SpecStream
MaxRequests == 3
\* requests the client sends in one run of SpecSeq
MaxRequestsSeq == 3
\* requests the client sends in one run of SpecStreamSeq
MaxChunks == 4
\* requests the client sends in one run of SpecConverse
MaxConverse == 5
\* requests the clients send in one run of SpecConverseOverlap
MaxOverlap == 3
\* requests the clients send in one run of SpecClients
MaxClients == 3

Threads == {"t1", "t2"}
SessionIds == {"default", "s1"}
NoId == "<omitted>"
GivenIds == SessionIds \cup {NoId}

NoRef == "NoRef"
RefOrder == <<"L1", "L2", "L3", "L4">>
Refs == {RefOrder[i] : i \in 1..Len(RefOrder)}

-----------------------------------------------------------------------------
(* Text *)

Space == " "
Empty == << >>

\* Python truthiness of a str
Truthy(s) == Len(s) > 0

IsBlank(s) == \A i \in 1..Len(s) : s[i] = Space

FirstInk(s) == CHOOSE i \in 1..Len(s) : s[i] # Space /\ \A j \in 1..(i-1) : s[j] = Space
LastInk(s) == CHOOSE i \in 1..Len(s) : s[i] # Space /\ \A j \in (i+1)..Len(s) : s[j] = Space

\* str.strip()
Strip(s) == IF IsBlank(s) THEN Empty ELSE SubSeq(s, FirstInk(s), LastInk(s))

\* x in s, for str
Contains(s, x) ==
    \E i \in 1..(Len(s) + 1) : i + Len(x) - 1 <= Len(s) /\ SubSeq(s, i, i + Len(x) - 1) = x


-----------------------------------------------------------------------------
(* SpeechService (src/src/services/speech_service.py) *)

None == [some |-> FALSE, text |-> Empty]
Some(s) == [some |-> TRUE, text |-> s]

\* x or ""
OrEmpty(x) == IF x.some /\ Truthy(x.text) THEN x.text ELSE Empty

\* result.text of the recognizer
Texts == {Empty, <<Space>>, <<"hello">>, <<"world", Space>>}

\* result.reason.name as the handler sees it. The SDK names its enum members
\* RecognizedSpeech, NoMatch and Canceled; the qualified spelling is the one
\* line 125 compares with, and is included so that the branch returning text
\* is exercised.
ReasonNames == {"ResultReason.RecognizedSpeech", "ResultReason.NoMatch",
                "RecognizedSpeech", "NoMatch", "Canceled"}

\* What one call of the recognizer does: the file handling or recognize_once
\* raises, or a result with a reason and a text comes back.
RecognizerOutcomes ==
    {[raised |-> TRUE, reason |-> "", text |-> Empty]}
    \cup [raised : {FALSE}, reason : {"ResultReason.RecognizedSpeech", "RecognizedSpeech"},
          text : Texts]
    \cup [raised : {FALSE}, reason : {"ResultReason.NoMatch", "NoMatch", "Canceled"},
          text : {Empty}]

\* SpeechService.transcribe_audio_stream
TranscribeAudioStream(configured, o) ==
    IF ~configured THEN None
    ELSE IF o.raised THEN None
    ELSE IF o.reason = "ResultReason.RecognizedSpeech" THEN Some(o.text)
    ELSE IF o.reason = "ResultReason.NoMatch" THEN None
    ELSE None

-----------------------------------------------------------------------------
(* IntentService (src/src/services/intent_service.py) *)

\* the three keys of system_prompts
Templates == {"question", "complaint", "other"}

\* message.content of the classification completion, as eval and the two
\* subscripts of line 67 treat it: the call raises, eval raises, the value
\* lacks "intent" or "confidence", or it is a dict holding both
ProviderIntents == Templates \cup {"billing"}
ClassifyOutcomes ==
    {[kind |-> k, intent |-> "", confidence |-> 0] : k \in {"raise", "bad_eval", "missing_key"}}
    \cup {[kind |-> "ok", intent |-> i, confidence |-> 90] : i \in ProviderIntents}

\* classify_intent returning what the provider sent whatever eval made of it
ClassifyIntentUnchecked(configured, o) ==
    IF ~configured
    THEN [intent |-> "other", confidence |-> 0, reasoning |-> "OpenAI not configured"]
    ELSE [intent |-> o.intent, confidence |-> o.confidence, reasoning |-> "brief explanation"]

\* IntentService.classify_intent; confidence in hundredths
ClassifyIntent(configured, o) ==
    IF ~configured
    THEN [intent |-> "other", confidence |-> 0, reasoning |-> "OpenAI not configured"]
    ELSE IF o.kind = "ok"
    THEN [intent |-> o.intent, confidence |-> o.confidence, reasoning |-> "brief explanation"]
    ELSE [intent |-> "other", confidence |-> 0, reasoning |-> "Error"]

\* the generation completion: the call raises, or message.content comes back
GenTexts == {<<"Sure.", Space>>}
GenOutcomes == [raised : BOOLEAN, content : GenTexts]

Apology ==
    <<"I apologize, but I'm having trouble understanding. Could you please rephrase that?">>
NotConfiguredReply ==
    <<"I'm sorry, but I'm having trouble processing your request right now.">>

Turn(role, content) == [role |-> role, content |-> content]

\* system_prompts.get(intent, system_prompts["other"])
SystemPrompt(intent) == IF intent \in Templates THEN intent ELSE "other"

HistoryLimit == 6

\* conversation_history[:6]
HistoryWindowOldest(history) ==
    IF Len(history) <= 6 THEN history ELSE SubSeq(history, 1, 6)

\* conversation_history[-6:]
HistoryWindow(history) ==
    IF Len(history) <= HistoryLimit THEN history
    ELSE SubSeq(history, Len(history) - HistoryLimit + 1, Len(history))

\* lines 104-111
BuildMessages(user_message, intent, history) ==
    <<Turn("system", <<SystemPrompt(intent)>>)>>
        \o HistoryWindow(history)
        \o <<Turn("user", user_message)>>

\* generate_response without the except branch of lines 124-126
GenerateResponseNoFallback(configured, o) ==
    IF ~configured THEN NotConfiguredReply ELSE Strip(o.content)

\* IntentService.generate_response, its return value
GenerateResponse(configured, o) ==
    IF ~configured THEN NotConfiguredReply
    ELSE IF o.raised THEN Apology
    ELSE Strip(o.content)

-----------------------------------------------------------------------------
(* Requests and responses *)

\* data.get("message", "")
Messages == {Empty, <<Space>>, <<"hi">>}

\* data.get("session_id", "default") / request.form.get / request.args.get
SessionIdOf(given) == IF given = NoId THEN "default" ELSE given

Request(kind, given, message) ==
    [kind |-> kind, session_id |-> SessionIdOf(given), message |-> message]

NoRequest == [kind |-> "none", session_id |-> "default", message |-> Empty]

Response(kind, code) ==
    [kind |-> kind, code |-> code, partial |-> Empty, transcript |-> Empty,
     intent |-> "", confidence |-> 0, reasoning |-> "", response |-> Empty]

NoResponse == Response("none", 0)

NoIntent == [intent |-> "", confidence |-> 0, reasoning |-> ""]
NoLog == [transcribe |-> "none", classify |-> "none", generate |-> "none", template |-> "none",
          recognizer |-> "none", recognized |-> Empty]

NotStarted == [started |-> FALSE, texts |-> << >>]
Started == [started |-> TRUE, texts |-> << >>]

Absent == [present |-> FALSE, text |-> Empty]
Present(s) == [present |-> TRUE, text |-> s]

\* live_transcripts.get(session_id): None for an id that is not a key
TranscriptGetNoDefault(store, sid) ==
    IF store[sid].present THEN store[sid].text ELSE <<"None">>

\* live_transcripts.get(session_id, "")
TranscriptGet(store, sid) == IF store[sid].present THEN store[sid].text ELSE Empty

\* (live_transcripts[session_id] + partial_text).strip()
AppendChunkUnspaced(buffer, partial) == Strip(buffer \o partial)

\* (live_transcripts[session_id] + " " + partial_text).strip()
AppendChunk(buffer, partial) == Strip(buffer \o <<Space>> \o partial)

\* a request arrives at an idle thread
Arrive(t, req) ==
    /\ pc[t] = "idle"
    /\ budget > 0
    /\ budget' = budget - 1
    /\ request' = [request EXCEPT ![t] = req]

\* ... and its handler starts; the previous response has been sent
Receive(t, req) ==
    /\ Arrive(t, req)
    /\ response' = [response EXCEPT ![t] = NoResponse]

\* the history variables of a request that looks up no conversation and
\* calls no provider
NoLogs(t) ==
    /\ arrived' = [arrived EXCEPT ![t] = << >>]
    /\ prior' = [prior EXCEPT ![t] = << >>]
    /\ provider_log' = [provider_log EXCEPT ![t] = NoLog]

\* a handler returns: the response is sent and its locals die
Return(t, resp) ==
    /\ pc' = [pc EXCEPT ![t] = "idle"]
    /\ response' = [response EXCEPT ![t] = resp]
    /\ conversation_history' = [conversation_history EXCEPT ![t] = NoRef]
    /\ intent_result' = [intent_result EXCEPT ![t] = NoIntent]
    /\ messages' = [messages EXCEPT ![t] = << >>]
    /\ bot_response' = [bot_response EXCEPT ![t] = Empty]
    /\ partial_text' = [partial_text EXCEPT ![t] = Empty]
    /\ joined' = [joined EXCEPT ![t] = Empty]

\* a step inside a handler
Goto(t, label) == pc' = [pc EXCEPT ![t] = label]

-----------------------------------------------------------------------------
(* Streaming endpoints (src/app.py 43-122) *)

\* POST /api/stream/start
StreamStart(t, given) ==
    /\ Arrive(t, Request("start", given, Empty))
    /\ NoLogs(t)
    /\ live_transcripts' = [live_transcripts EXCEPT ![SessionIdOf(given)] = Present(Empty)]
    /\ heard' = [heard EXCEPT ![SessionIdOf(given)] = Started]
    /\ Return(t, Response("start", 200))
    /\ UNCHANGED <<services, convStore>>

\* POST /api/stream/chunk without an "audio" part
StreamChunkNoAudio(t, given) ==
    /\ Arrive(t, Request("chunk", given, Empty))
    /\ NoLogs(t)
    /\ Return(t, Response("chunk", 400))
    /\ UNCHANGED <<services, convStore, streamStore>>

\* what the recognizer did in a call of transcribe_audio_stream: it was not
\* called, it raised, or it reported a reason
RecognizerReport(configured, o) ==
    IF ~configured THEN "not_configured" ELSE IF o.raised THEN "raised" ELSE o.reason

\* what transcribe_audio_stream returned: text, the empty string or None
Transcribed(x) == IF ~x.some THEN "null" ELSE IF Truthy(x.text) THEN "text" ELSE "empty"

\* POST /api/stream/chunk, lines 57-77: the chunk is transcribed
StreamChunkTranscribe(t, given, o) ==
    /\ Receive(t, Request("chunk", given, Empty))
    /\ partial_text' = [partial_text EXCEPT ![t] =
                            OrEmpty(TranscribeAudioStream(speech_config, o))]
    /\ arrived' = [arrived EXCEPT ![t] = << >>]
    /\ prior' = [prior EXCEPT ![t] = << >>]
    /\ provider_log' = [provider_log EXCEPT ![t] =
            [NoLog EXCEPT !.transcribe = Transcribed(TranscribeAudioStream(speech_config, o)),
                          !.recognizer = RecognizerReport(speech_config, o),
                          !.recognized = IF speech_config THEN o.text ELSE Empty]]
    /\ Goto(t, "chunk_check")
    /\ UNCHANGED <<services, convStore, streamStore, convLocals, joined>>

AfterInit(t) == IF Truthy(partial_text[t]) THEN "chunk_read" ELSE "chunk_respond"

\* StreamChunkCheck without the test: line 80 runs for every chunk
StreamChunkCheckAlwaysInit(t) ==
    /\ pc[t] = "chunk_check"
    /\ Goto(t, "chunk_init")
    /\ UNCHANGED <<services, convStore, streamStore, received, logs, convLocals, streamLocals>>

\* line 79: if session_id not in live_transcripts
StreamChunkCheck(t) ==
    /\ pc[t] = "chunk_check"
    /\ Goto(t, IF live_transcripts[request[t].session_id].present
               THEN AfterInit(t) ELSE "chunk_init")
    /\ UNCHANGED <<services, convStore, streamStore, received, logs, convLocals, streamLocals>>

\* line 80: live_transcripts[session_id] = ""
StreamChunkInit(t) ==
    /\ pc[t] = "chunk_init"
    /\ live_transcripts' = [live_transcripts EXCEPT ![request[t].session_id] = Present(Empty)]
    /\ Goto(t, AfterInit(t))
    /\ UNCHANGED <<services, convStore, heard, received, logs, convLocals, streamLocals>>

\* lines 84-85: the right-hand side reads the buffer
StreamChunkRead(t) ==
    /\ pc[t] = "chunk_read"
    /\ joined' = [joined EXCEPT ![t] =
                    AppendChunk(live_transcripts[request[t].session_id].text, partial_text[t])]
    /\ Goto(t, "chunk_write")
    /\ UNCHANGED <<services, convStore, streamStore, received, logs, convLocals, partial_text>>

\* line 83: the assignment stores the new buffer
StreamChunkWrite(t) ==
    /\ pc[t] = "chunk_write"
    /\ live_transcripts' = [live_transcripts EXCEPT ![request[t].session_id] = Present(joined[t])]
    /\ heard' = [heard EXCEPT ![request[t].session_id].texts = Append(@, partial_text[t])]
    /\ Goto(t, "chunk_respond")
    /\ UNCHANGED <<services, convStore, received, logs, convLocals, streamLocals>>

\* lines 87-94
StreamChunkRespond(t) ==
    /\ pc[t] = "chunk_respond"
    /\ Return(t, [Response("chunk", 200) EXCEPT
                    !.partial = partial_text[t],
                    !.transcript = live_transcripts[request[t].session_id].text])
    /\ UNCHANGED <<services, convStore, streamStore, request, budget, logs>>

\* StreamStatus that stores the empty string for an id that is not a key
StreamStatusLazyInit(t, given) ==
    /\ Arrive(t, Request("status", given, Empty))
    /\ NoLogs(t)
    /\ Return(t, [Response("status", 200) EXCEPT
                    !.transcript = TranscriptGet(live_transcripts, SessionIdOf(given))])
    /\ live_transcripts' = [live_transcripts EXCEPT ![SessionIdOf(given)] =
                                Present(TranscriptGet(live_transcripts, SessionIdOf(given)))]
    /\ UNCHANGED <<services, convStore, heard>>

\* GET /api/stream/status
StreamStatus(t, given) ==
    /\ Arrive(t, Request("status", given, Empty))
    /\ NoLogs(t)
    /\ Return(t, [Response("status", 200) EXCEPT
                    !.transcript = TranscriptGet(live_transcripts, SessionIdOf(given))])
    /\ UNCHANGED <<services, convStore, streamStore>>

\* StreamStop that finalizes: the buffer is removed once it has been returned
StreamStopFinalizing(t, given) ==
    /\ Arrive(t, Request("stop", given, Empty))
    /\ NoLogs(t)
    /\ Return(t, [Response("stop", 200) EXCEPT
                    !.transcript = TranscriptGet(live_transcripts, SessionIdOf(given))])
    /\ live_transcripts' = [live_transcripts EXCEPT ![SessionIdOf(given)] = Absent]
    /\ UNCHANGED <<services, convStore, heard>>

\* POST /api/stream/stop
StreamStop(t, given) ==
    /\ Arrive(t, Request("stop", given, Empty))
    /\ NoLogs(t)
    /\ Return(t, [Response("stop", 200) EXCEPT
                    !.transcript = TranscriptGet(live_transcripts, SessionIdOf(given))])
    /\ UNCHANGED <<services, convStore, streamStore>>

\* the steps of the streaming endpoints, for requests naming an id of ids
StreamStep(t, ids) ==
    \/ \E given \in ids : StreamStart(t, given)
    \/ \E given \in ids : StreamChunkNoAudio(t, given)
    \/ \E given \in ids, o \in RecognizerOutcomes : StreamChunkTranscribe(t, given, o)
    \/ StreamChunkCheck(t)
    \/ StreamChunkInit(t)
    \/ StreamChunkRead(t)
    \/ StreamChunkWrite(t)
    \/ StreamChunkRespond(t)
    \/ \E given \in ids : StreamStatus(t, given)
    \/ \E given \in ids : StreamStop(t, given)

-----------------------------------------------------------------------------
(* The list objects *)

Referenced(sessions, locals, r) ==
    \/ \E s \in SessionIds : sessions[s] = r
    \/ \E t \in Threads : locals[t] = r

\* a list nobody refers to is freed
Collect(sessions, locals, heap) ==
    [r \in Refs |-> IF Referenced(sessions, locals, r) THEN heap[r] ELSE << >>]

\* []: a fresh list object
NewList ==
    RefOrder[CHOOSE i \in 1..Len(RefOrder) :
                /\ ~Referenced(conversation_sessions, conversation_history, RefOrder[i])
                /\ \A j \in 1..(i-1) :
                      Referenced(conversation_sessions, conversation_history, RefOrder[j])]

\* the turns stored for a session id; none when the key is absent
History(sid) ==
    IF conversation_sessions[sid] = NoRef THEN << >> ELSE lists[conversation_sessions[sid]]

-----------------------------------------------------------------------------
(* Conversation endpoints (src/app.py 160-204) *)

\* line 166: if not user_message
Rejected(user_message) == ~Truthy(user_message)

\* POST /api/converse, lines 163-167: no message
ConverseReject(t, given, user_message) ==
    /\ Rejected(user_message)
    /\ Arrive(t, Request("converse", given, user_message))
    /\ NoLogs(t)
    /\ Return(t, Response("converse", 400))
    /\ UNCHANGED <<services, convStore, streamStore>>

\* POST /api/converse, lines 163-169: if session_id not in conversation_sessions
ConverseBegin(t, given, user_message) ==
    /\ ~Rejected(user_message)
    /\ Receive(t, Request("converse", given, user_message))
    /\ arrived' = [arrived EXCEPT ![t] = History(SessionIdOf(given))]
    /\ prior' = [prior EXCEPT ![t] = << >>]
    /\ provider_log' = [provider_log EXCEPT ![t] = NoLog]
    /\ Goto(t, IF conversation_sessions[SessionIdOf(given)] = NoRef
               THEN "conv_create" ELSE "conv_get")
    /\ UNCHANGED <<services, convStore, streamStore, convLocals, streamLocals>>

\* line 170: conversation_sessions[session_id] = []
ConverseCreate(t) ==
    /\ pc[t] = "conv_create"
    /\ LET sessions == [conversation_sessions EXCEPT ![request[t].session_id] = NewList]
       IN /\ conversation_sessions' = sessions
          /\ lists' = Collect(sessions, conversation_history, lists)
    /\ Goto(t, "conv_get")
    /\ UNCHANGED <<services, streamStore, received, logs, convLocals, streamLocals>>

\* line 171: conversation_history = conversation_sessions[session_id]
ConverseGet(t) ==
    /\ pc[t] = "conv_get"
    /\ conversation_sessions[request[t].session_id] # NoRef
    /\ conversation_history' =
          [conversation_history EXCEPT ![t] = conversation_sessions[request[t].session_id]]
    /\ prior' = [prior EXCEPT ![t] = History(request[t].session_id)]
    /\ Goto(t, "conv_classify")
    /\ UNCHANGED <<services, convStore, streamStore, received, arrived, provider_log,
                   intent_result, messages, bot_response, streamLocals>>

\* line 171 raises KeyError: the key was deleted after line 169; lines 190-192
ConverseGetKeyError(t) ==
    /\ pc[t] = "conv_get"
    /\ conversation_sessions[request[t].session_id] = NoRef
    /\ Return(t, Response("converse", 500))
    /\ UNCHANGED <<services, convStore, streamStore, request, budget, logs>>

\* line 173: intent_result = intent_service.classify_intent(user_message)
ConverseClassify(t, o) ==
    /\ pc[t] = "conv_classify"
    /\ intent_result' = [intent_result EXCEPT ![t] = ClassifyIntent(client, o)]
    /\ provider_log' = [provider_log EXCEPT ![t].classify =
                            IF ~client THEN "not_configured"
                            ELSE IF o.kind = "ok" THEN "ok" ELSE "failed"]
    /\ Goto(t, "conv_generate")
    /\ UNCHANGED <<services, convStore, streamStore, received, arrived, prior,
                   conversation_history, messages, bot_response, streamLocals>>

\* lines 174-176: bot_response = intent_service.generate_response(...)
ConverseGenerate(t, o) ==
    /\ pc[t] = "conv_generate"
    /\ messages' = [messages EXCEPT ![t] =
                      IF client
                      THEN BuildMessages(request[t].message, intent_result[t].intent,
                                         lists[conversation_history[t]])
                      ELSE << >>]
    /\ bot_response' = [bot_response EXCEPT ![t] = GenerateResponse(client, o)]
    /\ provider_log' = [provider_log EXCEPT
                            ![t].generate = IF ~client THEN "not_configured"
                                            ELSE IF o.raised THEN "failed" ELSE "ok",
                            ![t].template = IF client THEN SystemPrompt(intent_result[t].intent)
                                            ELSE "none"]
    /\ Goto(t, "conv_append_user")
    /\ UNCHANGED <<services, convStore, streamStore, received, arrived, prior,
                   conversation_history, intent_result, streamLocals>>

\* ConverseAppendUser with the append left out
ConverseAppendUserDropped(t) ==
    /\ pc[t] = "conv_append_user"
    /\ Goto(t, "conv_append_assistant")
    /\ UNCHANGED <<services, convStore, streamStore, received, logs, convLocals, streamLocals>>

\* line 178: conversation_history.append({"role": "user", ...})
ConverseAppendUser(t) ==
    /\ pc[t] = "conv_append_user"
    /\ lists' = [lists EXCEPT ![conversation_history[t]] =
                    Append(@, Turn("user", request[t].message))]
    /\ Goto(t, "conv_append_assistant")
    /\ UNCHANGED <<services, conversation_sessions, streamStore, received, logs,
                   convLocals, streamLocals>>

\* lines 179-189: conversation_history.append({"role": "assistant", ...}); return
ConverseAppendAssistant(t) ==
    /\ pc[t] = "conv_append_assistant"
    /\ Return(t, [Response("converse", 200) EXCEPT
                    !.intent = intent_result[t].intent,
                    !.confidence = intent_result[t].confidence,
                    !.reasoning = intent_result[t].reasoning,
                    !.response = bot_response[t]])
    /\ lists' = Collect(conversation_sessions, conversation_history',
                        [lists EXCEPT ![conversation_history[t]] =
                            Append(@, Turn("assistant", bot_response[t]))])
    /\ UNCHANGED <<services, conversation_sessions, streamStore, request, budget, logs>>

\* POST /api/clear-session, lines 197-199: if session_id in conversation_sessions
ClearSessionBegin(t, given) ==
    /\ Arrive(t, Request("clear", given, Empty))
    /\ arrived' = [arrived EXCEPT ![t] = History(SessionIdOf(given))]
    /\ prior' = [prior EXCEPT ![t] = << >>]
    /\ provider_log' = [provider_log EXCEPT ![t] = NoLog]
    /\ IF conversation_sessions[SessionIdOf(given)] # NoRef
       THEN /\ Goto(t, "clear_del")
            /\ response' = [response EXCEPT ![t] = NoResponse]
            /\ UNCHANGED <<convLocals, streamLocals>>
       ELSE Return(t, Response("clear", 200))
    /\ UNCHANGED <<services, convStore, streamStore>>

\* ClearSessionDel as conversation_sessions.clear(): every history is dropped
ClearSessionDelAll(t) ==
    /\ pc[t] = "clear_del"
    /\ conversation_sessions[request[t].session_id] # NoRef
    /\ LET sessions == [s \in SessionIds |-> NoRef]
       IN /\ conversation_sessions' = sessions
          /\ lists' = Collect(sessions, conversation_history, lists)
    /\ Return(t, Response("clear", 200))
    /\ UNCHANGED <<services, streamStore, request, budget, logs>>

\* ClearSessionDel that also forgets the transcript of the session
ClearSessionDelBoth(t) ==
    /\ pc[t] = "clear_del"
    /\ conversation_sessions[request[t].session_id] # NoRef
    /\ LET sessions == [conversation_sessions EXCEPT ![request[t].session_id] = NoRef]
       IN /\ conversation_sessions' = sessions
          /\ lists' = Collect(sessions, conversation_history, lists)
    /\ live_transcripts' = [live_transcripts EXCEPT ![request[t].session_id] = Absent]
    /\ Return(t, Response("clear", 200))
    /\ UNCHANGED <<services, heard, request, budget, logs>>

\* ClearSessionDel with the del left out
ClearSessionKept(t) ==
    /\ pc[t] = "clear_del"
    /\ Return(t, Response("clear", 200))
    /\ UNCHANGED <<services, convStore, streamStore, request, budget, logs>>

\* lines 200-201: del conversation_sessions[session_id]
ClearSessionDel(t) ==
    /\ pc[t] = "clear_del"
    /\ conversation_sessions[request[t].session_id] # NoRef
    /\ LET sessions == [conversation_sessions EXCEPT ![request[t].session_id] = NoRef]
       IN /\ conversation_sessions' = sessions
          /\ lists' = Collect(sessions, conversation_history, lists)
    /\ Return(t, Response("clear", 200))
    /\ UNCHANGED <<services, streamStore, request, budget, logs>>

\* line 200 raises KeyError: another clear deleted the key first; lines 202-204
ClearSessionKeyError(t) ==
    /\ pc[t] = "clear_del"
    /\ conversation_sessions[request[t].session_id] = NoRef
    /\ Return(t, Response("clear", 500))
    /\ UNCHANGED <<services, convStore, streamStore, request, budget, logs>>

\* the steps of the conversation endpoints, for requests naming an id of ids
\* and carrying a message of msgs
ConverseStep(t, ids, msgs) ==
    \/ \E given \in ids, m \in msgs : ConverseReject(t, given, m)
    \/ \E given \in ids, m \in msgs : ConverseBegin(t, given, m)
    \/ ConverseCreate(t)
    \/ ConverseGet(t)
    \/ \E o \in ClassifyOutcomes : ConverseClassify(t, o)
    \/ \E o \in GenOutcomes : ConverseGenerate(t, o)
    \/ ConverseAppendUser(t)
    \/ ConverseAppendAssistant(t)
    \/ \E given \in ids : ClearSessionBegin(t, given)
    \/ ClearSessionDel(t)

\* the steps only overlapping requests can take
ConverseRace(t) ==
    \/ ConverseGetKeyError(t)
    \/ ClearSessionKeyError(t)

-----------------------------------------------------------------------------
(* Specifications *)

InitWith(n, clients, speech_configs) ==
    /\ client \in clients
    /\ speech_config \in speech_configs
    /\ conversation_sessions = [s \in SessionIds |-> NoRef]
    /\ lists = [r \in Refs |-> << >>]
    /\ live_transcripts = [s \in SessionIds |-> Absent]
    /\ heard = [s \in SessionIds |-> NotStarted]
    /\ pc = [t \in Threads |-> "idle"]
    /\ request = [t \in Threads |-> NoRequest]
    /\ response = [t \in Threads |-> NoResponse]
    /\ conversation_history = [t \in Threads |-> NoRef]
    /\ intent_result = [t \in Threads |-> NoIntent]
    /\ messages = [t \in Threads |-> << >>]
    /\ bot_response = [t \in Threads |-> Empty]
    /\ partial_text = [t \in Threads |-> Empty]
    /\ joined = [t \in Threads |-> Empty]
    /\ arrived = [t \in Threads |-> << >>]
    /\ prior = [t \in Threads |-> << >>]
    /\ provider_log = [t \in Threads |-> NoLog]
    /\ budget = n

\* every endpoint, requests overlapping
Init == InitWith(MaxRequests, BOOLEAN, BOOLEAN)
Next ==
    \E t \in Threads :
        \/ StreamStep(t, GivenIds)
        \/ ConverseStep(t, GivenIds, Messages)
        \/ ConverseRace(t)
Spec == Init /\ [][Next]_vars

\* every endpoint, one request handled to completion before the next arrives
InitSeq == InitWith(MaxRequestsSeq, BOOLEAN, BOOLEAN)
NextSeq == StreamStep("t1", GivenIds) \/ ConverseStep("t1", GivenIds, Messages)
SpecSeq == InitSeq /\ [][NextSeq]_vars

\* the streaming endpoints, requests overlapping
InitStream == InitWith(MaxRequests, {TRUE}, BOOLEAN)
NextStream == \E t \in Threads : StreamStep(t, GivenIds)
SpecStream == InitStream /\ [][NextStream]_vars

\* the streaming endpoints, one request at a time, longer runs
InitStreamSeq == InitWith(MaxChunks, {TRUE}, BOOLEAN)
NextStreamSeq == StreamStep("t1", GivenIds)
SpecStreamSeq == InitStreamSeq /\ [][NextStreamSeq]_vars

\* the conversation endpoints, one request at a time, long conversations
InitConverse == InitWith(MaxConverse, BOOLEAN, {TRUE})
NextConverse == ConverseStep("t1", {NoId, "s1"}, {Empty, <<"hi">>})
SpecConverse == InitConverse /\ [][NextConverse]_vars

\* the conversation endpoints, requests for one session overlapping
InitConverseOverlap == InitWith(MaxOverlap, BOOLEAN, {TRUE})
NextConverseOverlap ==
    \E t \in Threads :
        \/ ConverseStep(t, {"s1"}, {Empty, <<"hi">>})
        \/ ConverseRace(t)
SpecConverseOverlap == InitConverseOverlap /\ [][NextConverseOverlap]_vars

\* every endpoint, two clients whose requests overlap: one names the session
\* "default" or no session, the other names "s1". No KeyError is possible
\* here: lines 171 and 200 raise only when a clear-session for the same id
\* deletes the key under a running handler.
InitClients == InitWith(MaxClients, BOOLEAN, BOOLEAN)
NextClients ==
    \/ StreamStep("t1", {NoId, "default"})
    \/ ConverseStep("t1", {NoId, "default"}, {Empty, <<"hi">>})
    \/ StreamStep("t2", {"s1"})
    \/ ConverseStep("t2", {"s1"}, {Empty, <<"hi">>})
SpecClients == InitClients /\ [][NextClients]_vars

-----------------------------------------------------------------------------
(* Properties *)

\* thread t has answered a request of this kind and no new one has arrived
Answered(t, kind) == pc[t] = "idle" /\ request[t].kind = kind /\ response[t].kind = kind

\* the two turns a converse request stores
TurnPair(t) ==
    <<Turn("user", request[t].message), Turn("assistant", response[t].response)>>

\* C1: with one request handled at a time, a converse request answered with
\* success has extended the session's history, as the handler found it, by
\* exactly the user turn holding the submitted message followed by the
\* assistant turn holding the response text sent to the client.
C1_ConverseAppendsTurnPair ==
    \A t \in Threads :
        Answered(t, "converse") /\ response[t].code = 200
        => History(request[t].session_id) = prior[t] \o TurnPair(t)

\* a second converse of a session has been answered
C1_Witness ==
    /\ Answered("t1", "converse")
    /\ response["t1"].code = 200
    /\ Len(prior["t1"]) = 2
    /\ Len(History(request["t1"].session_id)) = 4

\* C2: a converse request whose message is empty or all whitespace is answered
\* 400 at once: it never gets past validation, so no provider is called and no
\* step that touches the session store is taken for it.
C2_BlankMessageRejected ==
    \A t \in Threads :
        request[t].kind = "converse" /\ IsBlank(request[t].message)
        => /\ pc[t] = "idle"
           /\ response[t].code = 400
           /\ provider_log[t] = NoLog

\* thread t has called generate_response and not yet returned
Generated(t) == pc[t] \in {"conv_append_user", "conv_append_assistant"}

\* the entries of a message list between the first and the last
Between(m) == SubSeq(m, 2, Len(m) - 1)

\* s is the last Len(s) entries of h, in order
IsTail(s, h) ==
    /\ Len(s) <= Len(h)
    /\ \A i \in 1..Len(s) : s[i] = h[Len(h) - Len(s) + i]

\* C3: the message list a converse call sends to generation is one system
\* instruction, then the last 6 turns (all of them when there are fewer) of
\* the history as it was before this turn, in stored order, then the current
\* user message, added once, as the last entry.
C3_GenerationContext ==
    \A t \in Threads :
        Generated(t) /\ client
        => LET m == messages[t]
               h == prior[t]
           IN /\ Len(m) >= 2
              /\ m[1].role = "system"
              /\ m[1].content \in {<<k>> : k \in Templates}
              /\ m[Len(m)] = Turn("user", request[t].message)
              /\ IsTail(Between(m), h)
              /\ Len(Between(m)) = IF Len(h) < 6 THEN Len(h) ELSE 6

\* a converse call on a history of 8 turns sends 1 + 6 + 1 messages
C3_Witness ==
    /\ Generated("t1")
    /\ client
    /\ Len(prior["t1"]) = 8
    /\ Len(messages["t1"]) = 8
    /\ prior["t1"][2] # prior["t1"][8]

\* thread t has answered a converse request for which generate_response was called
GenerationLogged(t, outcomes) ==
    /\ pc[t] = "idle"
    /\ request[t].kind = "converse"
    /\ provider_log[t].generate \in outcomes

\* the claim of C4 as written: whenever generation cannot obtain text from the
\* provider, because the call raised or because no provider is configured,
\* converse answers 200 with the apology of line 126 and stores it as the
\* assistant turn right after the user turn.
C4_AlwaysApology ==
    \A t \in Threads :
        GenerationLogged(t, {"failed", "not_configured"})
        => /\ response[t].code = 200
           /\ response[t].response = Apology
           /\ History(request[t].session_id) = prior[t] \o TurnPair(t)

\* C4 as amended: when the generation call raises, converse answers 200 with
\* the apology of line 126; when no provider is configured it answers 200 with
\* the reply of line 85; either way that text is stored as the assistant turn
\* right after the user turn.
C4_FallbackReply ==
    \A t \in Threads :
        GenerationLogged(t, {"failed", "not_configured"})
        => /\ response[t].code = 200
           /\ response[t].response =
                 IF provider_log[t].generate = "failed" THEN Apology ELSE NotConfiguredReply
           /\ History(request[t].session_id) = prior[t] \o TurnPair(t)

\* a converse whose generation call raised has been answered
C4_Witness ==
    /\ GenerationLogged("t1", {"failed"})
    /\ response["t1"].response = Apology
    /\ Len(History(request["t1"].session_id)) = 4

\* thread t has answered a converse request whose classification failed:
\* the call raised, its output was unusable, or no provider is configured
ClassificationFailed(t) ==
    /\ pc[t] = "idle"
    /\ request[t].kind = "converse"
    /\ provider_log[t].classify \in {"failed", "not_configured"}

\* the claim of C5 as written: whenever classification fails, converse answers
\* 200 with intent "other" and confidence 0.0, generation is run with the
\* "other" instruction, and one user turn and one assistant turn are stored.
C5_AlwaysOtherTemplate ==
    \A t \in Threads :
        ClassificationFailed(t)
        => /\ response[t].code = 200
           /\ response[t].intent = "other"
           /\ response[t].confidence = 0
           /\ provider_log[t].template = "other"
           /\ History(request[t].session_id) = prior[t] \o TurnPair(t)

\* C5 as amended: whenever classification fails, converse answers 200 with
\* intent "other" and confidence 0.0 and stores one user turn and one assistant
\* turn; when the provider is configured, generation is run with the "other"
\* instruction; when it is not, no generation request is built and the
\* assistant turn is the reply of line 85.
C5_ClassificationFallback ==
    \A t \in Threads :
        ClassificationFailed(t)
        => /\ response[t].code = 200
           /\ response[t].intent = "other"
           /\ response[t].confidence = 0
           /\ History(request[t].session_id) = prior[t] \o TurnPair(t)
           /\ IF client
              THEN provider_log[t].template = "other"
              ELSE /\ provider_log[t].template = "none"
                   /\ response[t].response = NotConfiguredReply

\* a converse whose classification call failed and whose generation call
\* succeeded has been answered
C5_Witness ==
    /\ ClassificationFailed("t1")
    /\ provider_log["t1"].classify = "failed"
    /\ provider_log["t1"].generate = "ok"
    /\ response["t1"].response = <<"Sure.">>

\* both threads have answered a chunk request for session sid with a
\* transcription that is not blank, and these two are the appends made to the
\* session's buffer since it was last reset
TwoChunksAnswered(sid) ==
    /\ \A t \in Threads :
          /\ Answered(t, "chunk")
          /\ response[t].code = 200
          /\ request[t].session_id = sid
          /\ ~IsBlank(response[t].partial)
    /\ Len(heard[sid].texts) = 2

\* C6: when two chunk requests for one session id, with non-empty
\* transcriptions A and B, have both been answered, the session's buffer
\* contains A and contains B (up to the whitespace strip() removes), however
\* the steps of the two requests were interleaved.
C6_BothChunksKept ==
    \A sid \in SessionIds :
        TwoChunksAnswered(sid)
        => \A t \in Threads :
              Contains(TranscriptGet(live_transcripts, sid), Strip(response[t].partial))

\* the current transcript of a session: what status would answer
Buffer(sid) == TranscriptGet(live_transcripts, sid)

\* " ".join(texts)
RECURSIVE JoinSpaces(_)
JoinSpaces(texts) ==
    IF Len(texts) = 0 THEN Empty
    ELSE IF Len(texts) = 1 THEN texts[1]
    ELSE texts[1] \o <<Space>> \o JoinSpaces(Tail(texts))

\* no request is being handled
Quiet == \A t \in Threads : pc[t] = "idle"

\* what the responses of the streaming endpoints carry, given the text the
\* buffer of the session is expected to hold
StreamResponses(t, expected) ==
    /\ Answered(t, "chunk") /\ response[t].code = 200
       => /\ response[t].transcript = expected
          /\ Truthy(response[t].partial)
             => response[t].partial = heard[request[t].session_id].texts[
                                          Len(heard[request[t].session_id].texts)]
    /\ Answered(t, "status") => response[t].transcript = expected /\ response[t].code = 200

\* the claim of C7 as written: after start(s) and chunks handled one after
\* another with the non-empty transcriptions t1..tn, the buffer of s, the
\* transcript of the last chunk's response and what status answers are the
\* stripped " ".join of t1..tn, and a chunk's response carries its own text as
\* partial.
C7_StrippedJoin ==
    \A t \in Threads :
        LET sid == request[t].session_id
            expected == Strip(JoinSpaces(heard[sid].texts))
        IN Quiet /\ heard[sid].started
           => Buffer(sid) = expected /\ StreamResponses(t, expected)

\* none of the texts but the last ends in whitespace
InnerTextsEndInInk(texts) ==
    \A i \in 1..(Len(texts) - 1) : texts[i][Len(texts[i])] # Space

\* C7 as amended: the same, for transcriptions t1..tn of which none but the
\* last ends in whitespace.
C7_StrippedJoinOfTrimmedTexts ==
    \A t \in Threads :
        LET sid == request[t].session_id
            expected == Strip(JoinSpaces(heard[sid].texts))
        IN Quiet /\ heard[sid].started /\ InnerTextsEndInInk(heard[sid].texts)
           => Buffer(sid) = expected /\ StreamResponses(t, expected)

\* start, then the chunks "hello" and "world ": the buffer is "hello world"
C7_Witness ==
    /\ Quiet
    /\ Answered("t1", "chunk")
    /\ heard["s1"] = [started |-> TRUE, texts |-> << <<"hello">>, <<"world", Space>> >>]
    /\ Buffer("s1") = <<"hello", Space, "world">>
    /\ response["t1"].transcript = <<"hello", Space, "world">>

\* C8: every step taken for a chunk whose transcription came back empty or
\* None (no speech matched, any other reason, an exception, no provider
\* configured) leaves the text of every transcript buffer as it was, and the
\* chunk is answered 200 with the empty string as partial.
C8_SilentChunk ==
    [][\A t \in Threads :
          request'[t].kind = "chunk" /\ provider_log'[t].transcribe \in {"empty", "null"}
          => /\ \A sid \in SessionIds : Buffer(sid)' = Buffer(sid)
             /\ pc'[t] = "idle" => /\ response'[t].code = 200
                                   /\ response'[t].partial = Empty]_vars

\* a chunk without recognized text has been answered for a session whose
\* buffer holds text
C8_Witness ==
    /\ Answered("t1", "chunk")
    /\ provider_log["t1"].transcribe = "null"
    /\ response["t1"].code = 200
    /\ Buffer(request["t1"].session_id) = <<"hello">>

\* in a run that handles one request at a time: a request of this kind
\* arrives at thread t with this step
Arrives(t, kind) == pc[t] = "idle" /\ budget' # budget /\ request'[t].kind = kind

\* C9: once clear-session is answered, it is answered 200 and the session has
\* no history; a clear-session for an id without history is answered 200 at
\* once and leaves the conversation store as it was (so a second clear changes
\* nothing); the converse that follows a clear of its id finds no turns, and a
\* converse that found no turns on arrival is generated from the system and
\* the user message alone, retrieves the empty history and leaves two turns.
C9_ClearSession ==
    /\ [](\A t \in Threads :
             Answered(t, "clear")
             => /\ response[t].code = 200
                /\ conversation_sessions[request[t].session_id] = NoRef
                /\ History(request[t].session_id) = << >>)
    /\ [][\A t \in Threads :
             /\ Arrives(t, "clear") /\ History(request'[t].session_id) = << >>
                => /\ pc'[t] = "idle"
                   /\ response'[t] = Response("clear", 200)
                   /\ convStore' = convStore
             /\ Answered(t, "clear") /\ Arrives(t, "converse") /\ pc'[t] # "idle"
                /\ request'[t].session_id = request[t].session_id
                => arrived'[t] = << >>]_vars
    /\ [](\A t \in Threads :
             request[t].kind = "converse" /\ arrived[t] = << >>
             => /\ Generated(t) /\ client => Len(messages[t]) = 2
                /\ Answered(t, "converse") /\ response[t].code # 400
                   => /\ response[t].code = 200
                      /\ prior[t] = << >>
                      /\ Len(History(request[t].session_id)) = 2)

\* a clear-session has been answered for a session that had two turns
C9_Witness ==
    /\ Answered("t1", "clear")
    /\ Len(arrived["t1"]) = 2
    /\ History(request["t1"].session_id) = << >>

\* C10: a status or a stop request for an id that is not a key of
\* live_transcripts is answered 200 with the empty transcript; a converse
\* with a message, for an id that is not a key of conversation_sessions, has
\* retrieved the empty list when line 171 is done and is answered 200.
C10_UnknownSession ==
    /\ [][\A t \in Threads :
             (Arrives(t, "status") \/ Arrives(t, "stop"))
             /\ ~live_transcripts[request'[t].session_id].present
             => /\ pc'[t] = "idle"
                /\ response'[t] = Response(request'[t].kind, 200)]_vars
    /\ [][\A t \in Threads :
             Arrives(t, "converse") /\ conversation_sessions[request'[t].session_id] = NoRef
             /\ pc'[t] # "idle"
             => arrived'[t] = << >>]_vars
    /\ [](\A t \in Threads :
             request[t].kind = "converse" /\ arrived[t] = << >> /\ Truthy(request[t].message)
             => /\ pc[t] = "conv_classify"
                   => conversation_history[t] # NoRef /\ lists[conversation_history[t]] = << >>
                /\ pc[t] = "idle" => response[t].code = 200)

\* status has been answered for a session no chunk and no start has named
C10_Witness ==
    /\ Answered("t1", "status")
    /\ ~live_transcripts[request["t1"].session_id].present
    /\ response["t1"].code = 200
    /\ response["t1"].transcript = Empty

\* the words of a text: its segments other than whitespace
InkOf(s) == {s[i] : i \in 1..Len(s)} \ {Space}

\* the words of the texts appended to the buffer of sid since its last start
HeardInk(sid) == UNION {InkOf(heard[sid].texts[i]) : i \in 1..Len(heard[sid].texts)}

\* C11: once start has been handled for a session, every word of its
\* transcript buffer comes from a text appended after that start: nothing the
\* buffer held before the start is part of a later value, also when a chunk
\* of the session is being handled while start runs.
C11_StartDiscardsOldText ==
    \A sid \in SessionIds :
        heard[sid].started => InkOf(Buffer(sid)) \subseteq HeardInk(sid)


\* C12: with requests handled one at a time, stop answers 200 with the text
\* status answers in the same state and leaves both stores as they were; a
\* status that follows a stop of the same session answers the text the stop
\* answered; and a chunk with text appends to the buffer it finds, whatever
\* was handled before it.
C12_StopIsStatus ==
    [][\A t \in Threads :
          /\ Arrives(t, "stop")
             => /\ response'[t] = [Response("stop", 200) EXCEPT
                                     !.transcript = Buffer(request'[t].session_id)]
                /\ live_transcripts' = live_transcripts
                /\ convStore' = convStore
          /\ Arrives(t, "status")
             => /\ response'[t] = [Response("status", 200) EXCEPT
                                     !.transcript = Buffer(request'[t].session_id)]
                /\ Answered(t, "stop") /\ request'[t].session_id = request[t].session_id
                   => response'[t].transcript = response[t].transcript
          /\ pc[t] = "chunk_write" /\ pc'[t] # "chunk_write"
             => Buffer(request[t].session_id)' =
                   AppendChunk(Buffer(request[t].session_id), partial_text[t])]_vars

\* stop has been answered with the text of a buffer that holds two texts
C12_Witness ==
    /\ Answered("t1", "stop")
    /\ Len(heard[request["t1"].session_id].texts) = 2
    /\ response["t1"].transcript = <<"hello", Space, "world">>
    /\ Buffer(request["t1"].session_id) = <<"hello", Space, "world">>


StreamKinds == {"start", "chunk", "status", "stop"}
ConverseKinds == {"converse", "clear"}

\* C13: with requests handled one at a time, no step of start, chunk, status
\* or stop changes conversation_sessions or a stored list, and no step of
\* converse or clear-session changes live_transcripts.
C13_StoresIndependent ==
    [][\A t \in Threads :
          /\ request'[t].kind \in StreamKinds => convStore' = convStore
          /\ request'[t].kind \in ConverseKinds => live_transcripts' = live_transcripts]_vars

\* clear-session has been answered for a session that had two turns and whose
\* transcript buffer holds text
C13_Witness ==
    /\ Answered("t1", "clear")
    /\ Len(arrived["t1"]) = 2
    /\ Buffer(request["t1"].session_id) = <<"hello">>


\* a is b or the first turns of b
IsPrefix(a, b) == Len(a) <= Len(b) /\ SubSeq(b, 1, Len(a)) = a

\* this step is line 200 of a clear-session for sid
ClearsSession(sid) ==
    \E t \in Threads :
        pc[t] = "clear_del" /\ request[t].session_id = sid /\ pc'[t] = "idle"

\* C14: every step other than the del of a clear-session for the session
\* leaves the stored history of a session as it was or longer by turns at its
\* end, also when converse requests for the session overlap.
C14_AppendOnly ==
    [][\A sid \in SessionIds :
          ~ClearsSession(sid) => IsPrefix(History(sid), History(sid)')]_vars


\* no converse request is being handled
NoConverseInProgress == \A t \in Threads : pc[t] = "idle" \/ request[t].kind # "converse"

\* user, assistant, user, assistant, ...
Alternates(h) ==
    /\ Len(h) % 2 = 0
    /\ \A i \in 1..Len(h) : h[i].role = IF i % 2 = 1 THEN "user" ELSE "assistant"

\* C17: whenever no converse request is being handled, the stored history of
\* every session has even length and its turns alternate user, assistant,
\* starting with user, also after converse requests for one session overlapped.
C17_HistoryAlternates ==
    NoConverseInProgress => \A sid \in SessionIds : Alternates(History(sid))


\* C18: when a handler is about to store its assistant turn in the stored
\* history of its session, the last stored turn is its own user turn and the
\* turns its generation request carried are the last six (or fewer) turns
\* stored before that user turn: overlapping converse requests generate as if
\* they ran one after another in the order of their turns.
C18_GeneratedFromStoredTurns ==
    \A t \in Threads :
        /\ pc[t] = "conv_append_assistant"
        /\ client
        /\ conversation_sessions[request[t].session_id] = conversation_history[t]
        => LET h == lists[conversation_history[t]]
           IN /\ Len(h) >= 1
              /\ h[Len(h)] = Turn("user", request[t].message)
              /\ Between(messages[t]) = HistoryWindow(SubSeq(h, 1, Len(h) - 1))


\* the names under which a recognizer result says that speech was recognized
RecognizedNames == {"RecognizedSpeech", "ResultReason.RecognizedSpeech"}

\* C15: for every chunk that was handed to transcribe_audio_stream: when the
\* recognizer reported recognized speech the call returned the recognized
\* text, which the handler holds as partial_text; in every other case (not
\* configured, no match, another reason, an exception) it returned None.
C15_TranscribeReturnsRecognizedText ==
    \A t \in Threads :
        request[t].kind = "chunk" /\ provider_log[t].recognizer # "none"
        => IF provider_log[t].recognizer \in RecognizedNames
           THEN /\ provider_log[t].transcribe =
                      IF Truthy(provider_log[t].recognized) THEN "text" ELSE "empty"
                /\ pc[t] = "chunk_check" => partial_text[t] = provider_log[t].recognized
           ELSE provider_log[t].transcribe = "null"


\* thread t has answered a chunk that carried audio
ChunkAnswered(t) == Answered(t, "chunk") /\ provider_log[t].recognizer # "none"

\* the claim of C16 as written: a chunk with audio and a status query are
\* answered 200 whether or not start was called for the session, and once
\* either is answered the session id is a key of live_transcripts.
C16_LazyInitOnChunkOrStatus ==
    \A t \in Threads :
        ChunkAnswered(t) \/ Answered(t, "status")
        => /\ response[t].code = 200
           /\ live_transcripts[request[t].session_id].present

\* C16 as amended: a chunk with audio and a status query are answered 200
\* whether or not start was called for the session; once a chunk is answered
\* the session id is a key of live_transcripts, line 80 having stored the
\* empty string for an id that was not; a status query stores nothing: it
\* answers the empty string for an id that is not a key and leaves
\* live_transcripts as it was.
C16_LazyInitOnChunk ==
    /\ [](\A t \in Threads :
             /\ ChunkAnswered(t) => /\ response[t].code = 200
                                    /\ live_transcripts[request[t].session_id].present
             /\ Answered(t, "status") => response[t].code = 200)
    /\ [][\A t \in Threads :
             /\ pc[t] = "chunk_init" /\ pc'[t] # "chunk_init"
                => /\ ~live_transcripts[request[t].session_id].present
                   /\ live_transcripts'[request[t].session_id] = Present(Empty)
             /\ Arrives(t, "status")
                => /\ live_transcripts' = live_transcripts
                   /\ ~live_transcripts[request'[t].session_id].present
                      => response'[t].transcript = Empty]_vars

\* a chunk with text has been answered for a session on which start was never
\* called
C16_Witness ==
    /\ ChunkAnswered("t1")
    /\ ~heard[request["t1"].session_id].started
    /\ response["t1"].code = 200
    /\ live_transcripts[request["t1"].session_id] = Present(<<"hello">>)


\* what the clients can see of thread t changes with this step
Changed(t) == <<pc[t], request[t], response[t]>>' # <<pc[t], request[t], response[t]>>

\* thread t may be the one that takes this step: what is seen of it changes,
\* or nothing seen of any thread changes and t answers again, in the same
\* way, the request it answered last
Acts(t) ==
    \/ Changed(t)
    \/ /\ \A u \in Threads : ~Changed(u)
       /\ pc[t] = "idle" /\ request[t].kind # "none"

\* this step leaves what is stored for session sid as it was
Untouched(sid) ==
    /\ conversation_sessions'[sid] = conversation_sessions[sid]
    /\ History(sid)' = History(sid)
    /\ live_transcripts'[sid] = live_transcripts[sid]

\* C19: every step of every handler changes neither the history nor the
\* transcript buffer of a session other than the one its request names, however
\* the requests overlap; a request that names no session is one for "default".
C19_OtherSessionsUntouched ==
    [][\E t \in Threads :
          /\ Acts(t)
          /\ \A sid \in SessionIds \ {request'[t].session_id} : Untouched(sid)]_vars

\* a clear-session for "default", which had two turns, has been answered
\* while a converse for "s1" is between its two appends
C19_Witness ==
    /\ Answered("t1", "clear")
    /\ request["t1"].session_id = "default"
    /\ Len(arrived["t1"]) = 2
    /\ pc["t2"] = "conv_append_assistant"
    /\ request["t2"].session_id = "s1"
    /\ Len(History("s1")) = 1

=============================================================================
